---- MODULE Spec2Model ----
(***************************************************************************)
(* A model of python_terraform/terraform.py: the option-to-argument        *)
(* encoder (Terraform.generate_cmd_string), the command executor           *)
(* (Terraform.cmd), the output shim (Terraform.output) and the temp        *)
(* variable file manager (VariableFiles).                                  *)
(*                                                                         *)
(* A Python str whose characters the code inspects (option names, command  *)
(* names, map keys and values) is a sequence of one-character strings; a   *)
(* str the code only builds and passes on (a token, a path, a command      *)
(* line) is a TLA+ string built with \o.                                   *)
(***************************************************************************)
EXTENDS Integers, Sequences, FiniteSets, TLC

(***************************************************************************)
(* Bounds of the model.                                                    *)
(***************************************************************************)
\* the number of calls (cmd, output, generate_cmd_string) a behaviour makes
MaxCalls == 3

(***************************************************************************)
(* Strings.                                                                *)
(***************************************************************************)
RECURSIVE StrOf(_)
\* the str with the characters cs
StrOf(cs) == IF cs = <<>> THEN "" ELSE Head(cs) \o StrOf(Tail(cs))

RECURSIVE Replace(_, _, _)
\* str.replace(old, new) for one-character old and new
Replace(cs, old, new) ==
    IF cs = <<>> THEN <<>>
    ELSE <<IF Head(cs) = old THEN new ELSE Head(cs)>> \o Replace(Tail(cs), old, new)

\* the expression  sub in cs  of two strs
Contains(cs, sub) ==
    \E i \in 0..(Len(cs) - Len(sub)) : SubSeq(cs, i + 1, i + Len(sub)) = sub

\* the expression  ch in cs  for one character
HasChar(cs, ch) == \E i \in 1..Len(cs) : cs[i] = ch

RECURSIVE Split(_, _)
\* str.split(): the maximal runs of non-blank characters, cur the run being read
Split(cs, cur) ==
    IF cs = <<>> THEN (IF cur = <<>> THEN <<>> ELSE <<cur>>)
    ELSE IF Head(cs) = " "
         THEN (IF cur = <<>> THEN <<>> ELSE <<cur>>) \o Split(Tail(cs), <<>>)
         ELSE Split(Tail(cs), Append(cur, Head(cs)))

RECURSIVE Join(_, _)
\* sep.join(toks) for a list of strs
Join(sep, toks) ==
    IF toks = <<>> THEN ""
    ELSE IF Len(toks) = 1 THEN toks[1]
    ELSE toks[1] \o sep \o Join(sep, Tail(toks))

RECURSIVE MapStr(_)
\* the list of strs of a list of character sequences
MapStr(css) == IF css = <<>> THEN <<>> ELSE <<StrOf(Head(css))>> \o MapStr(Tail(css))

(***************************************************************************)
(* Flag markers and option values.  A value is a record tagged by its      *)
(* Python type: "list" (items), "dict" (items: <<key, value>> pairs in     *)
(* insertion order), "IsFlagged", "IsNotFlagged", "None", "bool" (b) and   *)
(* "str" (s).                                                              *)
(***************************************************************************)
IsFlagged == [t |-> "IsFlagged"]
IsNotFlagged == [t |-> "IsNotFlagged"]
None == [t |-> "None"]
PyBool(b) == [t |-> "bool", b |-> b]
PyStr(cs) == [t |-> "str", s |-> cs]
PyList(items) == [t |-> "list", items |-> items]
PyDict(items) == [t |-> "dict", items |-> items]

COMMAND_WITH_SUBCOMMANDS == {<<"w", "o", "r", "k", "s", "p", "a", "c", "e">>}

terraform_bin_path == "terraform"
(***************************************************************************)
(* The temp variable file manager (class VariableFiles).  A temp file is   *)
(* identified by a number; tempfile gives every new file a fresh name.     *)
(***************************************************************************)
Digits == <<"0", "1", "2", "3", "4", "5", "6", "7", "8", "9">>

RECURSIVE IntStr(_)
\* str(n) of a natural number
IntStr(n) == IF n < 10 THEN Digits[n + 1] ELSE IntStr(n \div 10) \o Digits[(n % 10) + 1]

\* temp.name of the file tempfile.NamedTemporaryFile(suffix=".tfvars.json") makes
TempName(id) == "/tmp/tmp" \o IntStr(id) \o ".tfvars.json"

RECURSIVE JsonEscape(_)
\* the text of a str inside a JSON string: quote and backslash get a backslash
JsonEscape(cs) ==
    IF cs = <<>> THEN <<>>
    ELSE (IF Head(cs) \in {"\"", "\\"} THEN <<"\\", Head(cs)>> ELSE <<Head(cs)>>)
         \o JsonEscape(Tail(cs))

RECURSIVE JsonPairs(_)
\* the body of json.dumps of a flat str-to-str dict: "k": "v", "k": "v"
JsonPairs(items) ==
    IF items = <<>> THEN <<>>
    ELSE <<"\"">> \o JsonEscape(items[1][1]) \o <<"\"", ":", " ", "\"">>
         \o JsonEscape(items[1][2]) \o <<"\"">>
         \o (IF Len(items) > 1 THEN <<",", " ">> ELSE <<>>)
         \o JsonPairs(Tail(items))

\* json.dumps(variables), as a sequence of characters
JsonDumps(items) == <<"{">> \o JsonPairs(items) \o <<"}">>

\* (mutant) create writes an empty JSON object
Create_WritesNothing(id, variables) ==
    [id |-> id, name |-> TempName(id), content |-> JsonDumps(<<>>)]

\* VariableFiles.create: the new file (not deleted on close), its name and content
Create(id, variables) ==
    [id |-> id, name |-> TempName(id), content |-> JsonDumps(variables)]

(***************************************************************************)
(* The argument encoder (Terraform.generate_cmd_string).                   *)
(***************************************************************************)
RECURSIVE ReprPairs(_)
\* the body of repr of a flat str-to-str dict: 'k': 'v', 'k': 'v'
ReprPairs(items) ==
    IF items = <<>> THEN ""
    ELSE "'" \o StrOf(items[1][1]) \o "': '" \o StrOf(items[1][2]) \o "'"
         \o (IF Len(items) > 1 THEN ", " ELSE "")
         \o ReprPairs(Tail(items))

\* what f"{value}" gives for a value that reaches the last line of the loop
Format(value) ==
    CASE value.t = "bool" -> IF value.b THEN "true" ELSE "false"
      [] value.t = "str" -> StrOf(value.s)
      [] value.t = "dict" -> "{" \o ReprPairs(value.items) \o "}"

\* (mutant) the name is used as it is given
NormalizeOption_Keeps(option) == option

\* option.replace("_", "-") when the name holds an underscore
NormalizeOption(option) ==
    IF HasChar(option, "_") THEN Replace(option, "_", "-") ELSE option

\* (mutant) a list value gives one token, for its last element
ListTokens_LastOnly(option, items) ==
    IF items = <<>> THEN <<>>
    ELSE <<"-" \o option \o "=" \o StrOf(items[Len(items)])>>

RECURSIVE ListTokens(_, _)
\* one -option=element token for each element of a list value
ListTokens(option, items) ==
    IF items = <<>> THEN <<>>
    ELSE <<"-" \o option \o "=" \o StrOf(Head(items))>> \o ListTokens(option, Tail(items))

\* (mutant) a backend-config map gives one token, for its first entry
BackendTokens_FirstOnly(items) ==
    IF items = <<>> THEN <<>>
    ELSE <<"-backend-config=" \o StrOf(items[1][1]) \o "=" \o StrOf(items[1][2])>>

RECURSIVE BackendTokens(_)
\* one -backend-config=key=value token for each entry of a backend-config map
BackendTokens(items) ==
    IF items = <<>> THEN <<>>
    ELSE <<"-backend-config=" \o StrOf(items[1][1]) \o "=" \o StrOf(items[1][2])>>
         \o BackendTokens(Tail(items))

\* (mutant) a flag is given a value
FlagTokens_WithValue(option) == <<"-" \o option \o "=true">>

\* the token of an option whose value is IsFlagged
FlagTokens(option) == <<"-" \o option>>

\* One turn of the loop over kwargs.items(): st = [cmds, made] holds the tokens
\* so far and the temp files created so far; nextId names the next temp file.
EncodeOption(rawOption, value, st, nextId) ==
    LET opt == NormalizeOption(rawOption)
        option == StrOf(opt)
    IN  IF value.t = "list"
        THEN [st EXCEPT !.cmds = @ \o ListTokens(option, value.items)]
        ELSE IF value.t = "dict" /\ Contains(opt, <<"b", "a", "c", "k", "e", "n", "d", "-", "c", "o", "n", "f", "i", "g">>)
        THEN [st EXCEPT !.cmds = @ \o BackendTokens(value.items)]
        ELSE IF value.t = "dict" /\ opt = <<"v", "a", "r">>
        THEN IF value.items # <<>>
             THEN LET f == Create(nextId + Len(st.made), value.items)
                  IN  [cmds |-> st.cmds \o <<"-var-file=" \o f.name>>,
                       made |-> Append(st.made, f)]
             ELSE st
        ELSE IF value.t = "IsFlagged"
        THEN [st EXCEPT !.cmds = @ \o FlagTokens(option)]
        ELSE IF value.t \in {"None", "IsNotFlagged"}
        THEN st
        ELSE [st EXCEPT !.cmds = @ \o <<"-" \o option \o "=" \o Format(value)>>]

RECURSIVE EncodeOptions(_, _, _)
\* the loop over kwargs.items(), in insertion order
EncodeOptions(kwargs, st, nextId) ==
    IF kwargs = <<>> THEN st
    ELSE EncodeOptions(Tail(kwargs), EncodeOption(kwargs[1][1], kwargs[1][2], st, nextId), nextId)

\* args.pop(0) of a command with sub-commands raises IndexError: no args
PopFails(cmd, args) == cmd \in COMMAND_WITH_SUBCOMMANDS /\ args = <<>>

\* (mutant) cmd is taken as one token, whatever blanks it holds
CommandTokens_Unsplit(cmd, args) ==
    LET cmds == <<terraform_bin_path, StrOf(cmd)>>
    IN  IF cmd \in COMMAND_WITH_SUBCOMMANDS THEN Append(cmds, Head(args)) ELSE cmds

\* cmds before the loop over the options: the binary, the words of cmd and,
\* for a command with sub-commands, the first positional argument
CommandTokens(cmd, args) ==
    LET cmds == <<terraform_bin_path>> \o MapStr(Split(cmd, <<>>))
    IN  IF cmd \in COMMAND_WITH_SUBCOMMANDS THEN Append(cmds, Head(args)) ELSE cmds

\* (mutant) the sub-command is read but not popped
TrailingArgs_All(cmd, args) == args

\* args at  cmds += args : without the sub-command args.pop(0) took
TrailingArgs(cmd, args) ==
    IF cmd \in COMMAND_WITH_SUBCOMMANDS THEN Tail(args) ELSE args

\* Terraform.generate_cmd_string(cmd, *args, **kwargs): the tokens, the temp
\* files the call creates, and whether args.pop(0) raised IndexError.
generate_cmd_string(cmd, args, kwargs, nextId) ==
    IF PopFails(cmd, args)
    THEN [error |-> "IndexError", cmds |-> <<>>, made |-> <<>>]
    ELSE LET st == EncodeOptions(kwargs, [cmds |-> CommandTokens(cmd, args),
                                          made |-> <<>>], nextId)
         IN  [error |-> "none", cmds |-> st.cmds \o TrailingArgs(cmd, args),
              made |-> st.made]
(***************************************************************************)
(* Result normalisation (the end of Terraform.cmd, and Terraform.output).  *)
(* An Optional value is a sequence of length at most one: Absent is        *)
(* Python's None, Some(x) a value that is there.                           *)
(***************************************************************************)
Absent == <<>>
Some(x) == <<x>>

\* chr(b) for the ASCII bytes the child processes of the model write
Chr(b) ==
    CASE b = 32 -> " " [] b = 34 -> "\"" [] b = 58 -> ":" [] b = 44 -> ","
      [] b = 123 -> "{" [] b = 125 -> "}"
      [] b = 97 -> "a" [] b = 98 -> "b" [] b = 107 -> "k" [] b = 111 -> "o"
      [] OTHER -> "?"

\* bytes.decode() raises UnicodeDecodeError: a byte that is not ASCII and, as
\* in every byte string of the model, not part of a multi-byte sequence
DecodeFails(bs) == \E i \in 1..Len(bs) : bs[i] >= 128

\* bytes.decode() of a byte string that decodes
Decode(bs) == [i \in 1..Len(bs) |-> Chr(bs[i])]

\* (mutant) the test left out: every call waits for its child
ReturnsAtOnce_Never(synchronous) == FALSE

\* the test  if not synchronous  that guards  return None, None, None
ReturnsAtOnce(synchronous) == ~synchronous

\* (mutant) the reload guarded by the test the raise uses, negated
ShouldReload_NotPositive(ret_code) == ~(ret_code > 0)

\* the test  if ret_code == 0  that guards self.read_state_file()
ShouldReload(ret_code) == ret_code = 0

\* the test  if ret_code > 0 and raise_on_error
ShouldRaise(ret_code, raise_on_error) == ret_code > 0 /\ raise_on_error

\* what a call has produced: nothing yet, a returned value or a raised error
NoOutcome ==
    [kind |-> "none", error |-> "", ret |-> Absent, out |-> Absent, err |-> Absent,
     cmd |-> "", value |-> Absent]

Returned(ret, out, err) ==
    [NoOutcome EXCEPT !.kind = "returned", !.ret = ret, !.out = out, !.err = err]

Raised(error) == [NoOutcome EXCEPT !.kind = "raised", !.error = error]

\* (mutant) the streams handed over in the wrong order
TerraformCommandError_Swapped(ret_code, cmd, out, err) ==
    [NoOutcome EXCEPT !.kind = "raised", !.error = "TerraformCommandError",
                      !.ret = Some(ret_code), !.cmd = cmd, !.out = err, !.err = out]

\* TerraformCommandError(ret_code, cmd, out=out, err=err)
TerraformCommandError(ret_code, cmd, out, err) ==
    [NoOutcome EXCEPT !.kind = "raised", !.error = "TerraformCommandError",
                      !.ret = Some(ret_code), !.cmd = cmd, !.out = out, !.err = err]

\* (mutant) err = out = None whatever capture_output is
Normalize_DropsStreams(ret_code, out, err, capture_output, raise_on_error, cmds) ==
    IF ShouldRaise(ret_code, raise_on_error)
    THEN TerraformCommandError(ret_code, Join(" ", cmds), Absent, Absent)
    ELSE Returned(Some(ret_code), Absent, Absent)

\* The lines of Terraform.cmd after the cleanup: decode or drop the streams,
\* then raise TerraformCommandError or return the tuple.  out and err are what
\* communicate() gave: bytes when piped, Absent when not.
Normalize(ret_code, out, err, capture_output, raise_on_error, cmds) ==
    IF capture_output = "True" /\ (DecodeFails(out[1]) \/ DecodeFails(err[1]))
    THEN Raised("UnicodeDecodeError")
    ELSE LET o == IF capture_output = "True" THEN Some(Decode(out[1])) ELSE Absent
             e == IF capture_output = "True" THEN Some(Decode(err[1])) ELSE Absent
         IN  IF ShouldRaise(ret_code, raise_on_error)
             THEN TerraformCommandError(ret_code, Join(" ", cmds), o, e)
             ELSE Returned(Some(ret_code), o, e)

RECURSIVE LStrip(_)
\* str.lstrip() for the blanks of the model
LStrip(cs) == IF cs # <<>> /\ Head(cs) = " " THEN LStrip(Tail(cs)) ELSE cs

RECURSIVE ClosingQuote(_, _)
\* the index of the quote that ends the JSON string whose text begins at i,
\* or 0: a backslash takes the character after it
ClosingQuote(cs, i) ==
    IF i > Len(cs) THEN 0
    ELSE IF cs[i] = "\"" THEN i
    ELSE IF cs[i] = "\\" THEN ClosingQuote(cs, i + 2)
    ELSE ClosingQuote(cs, i + 1)

RECURSIVE JsonUnescape(_)
\* the str of the text of a JSON string
JsonUnescape(cs) ==
    IF cs = <<>> THEN <<>>
    ELSE IF Head(cs) = "\\" /\ Len(cs) > 1
         THEN <<cs[2]>> \o JsonUnescape(Tail(Tail(cs)))
         ELSE <<Head(cs)>> \o JsonUnescape(Tail(cs))

RECURSIVE ParsePairs(_, _)
\* the entries of a flat JSON object whose text after the brace is cs:
\* [ok, items], reading  "k": "v"  pairs separated by commas up to the brace
ParsePairs(cs, items) ==
    LET t == LStrip(cs)
        q1 == ClosingQuote(t, 2)
        afterKey == LStrip(SubSeq(t, q1 + 1, Len(t)))
        afterColon == LStrip(Tail(afterKey))
        q2 == ClosingQuote(afterColon, 2)
        afterVal == LStrip(SubSeq(afterColon, q2 + 1, Len(afterColon)))
        pair == <<JsonUnescape(SubSeq(t, 2, q1 - 1)),
                   JsonUnescape(SubSeq(afterColon, 2, q2 - 1))>>
    IN  IF t = <<>> \/ Head(t) # "\"" \/ q1 = 0 THEN [ok |-> FALSE, items |-> <<>>]
        ELSE IF afterKey = <<>> \/ Head(afterKey) # ":" THEN [ok |-> FALSE, items |-> <<>>]
        ELSE IF afterColon = <<>> \/ Head(afterColon) # "\"" \/ q2 = 0
        THEN [ok |-> FALSE, items |-> <<>>]
        ELSE IF afterVal = <<>> THEN [ok |-> FALSE, items |-> <<>>]
        ELSE IF Head(afterVal) = "}"
        THEN [ok |-> LStrip(Tail(afterVal)) = <<>>, items |-> Append(items, pair)]
        ELSE IF Head(afterVal) = ","
        THEN ParsePairs(Tail(afterVal), Append(items, pair))
        ELSE [ok |-> FALSE, items |-> <<>>]

\* json.loads(text) for the texts of the model, flat str-to-str objects:
\* [ok, items]; not ok is JSONDecodeError
JsonLoads(text) ==
    LET t == LStrip(text)
    IN  IF t = <<>> \/ Head(t) # "{" THEN [ok |-> FALSE, items |-> <<>>]
        ELSE LET body == LStrip(Tail(t))
             IN  IF body # <<>> /\ Head(body) = "}"
                 THEN [ok |-> LStrip(Tail(body)) = <<>>, items |-> <<>>]
                 ELSE ParsePairs(body, <<>>)

\* The lines of Terraform.output after output_cmd returned (ret, out, _):
\* None when ret is truthy, else json.loads(out.lstrip()).
OutputResult(ret, out) ==
    IF ret # Absent /\ ret[1] # 0 THEN [NoOutcome EXCEPT !.kind = "returned"]
    ELSE IF out = Absent THEN Raised("AttributeError")
    ELSE LET parsed == JsonLoads(LStrip(out[1]))
         IN  IF parsed.ok
             THEN [NoOutcome EXCEPT !.kind = "returned", !.value = Some(parsed.items)]
             ELSE Raised("JSONDecodeError")
(***************************************************************************)
(* The inputs of the model.                                                *)
(***************************************************************************)
\* the threads of the caller and the Terraform objects they share
Threads == {1, 2}
Objects == {1, 2}
\* the object of the thread that makes its calls one after the other
MainObject == CHOOSE o \in Objects : \A q \in Objects : o <= q

\* the values of capture_output: True, "framework", and anything else
CaptureModes == {"True", "framework", "other"}

\* p.returncode: killed by SIGKILL, success, failure, detailed exit code
ExitCodes == {-9, 0, 1, 2}

\* what the child writes to a pipe:  {"a": "b"},  ok,  a byte that is not
\* UTF-8, and nothing
StdoutChoices == {<<123, 34, 97, 34, 58, 32, 34, 98, 34, 125>>, <<111, 107>>, <<255>>}
StderrChoices == {<<>>, <<111, 107>>}

c_apply == <<"a", "p", "p", "l", "y">>
c_workspace == <<"w", "o", "r", "k", "s", "p", "a", "c", "e">>
c_state_list == <<"s", "t", "a", "t", "e", " ", "l", "i", "s", "t">>
c_output == <<"o", "u", "t", "p", "u", "t">>
k_var == <<"v", "a", "r">>
k_no_color == <<"n", "o", "_", "c", "o", "l", "o", "r">>
k_input == <<"i", "n", "p", "u", "t">>
k_json == <<"j", "s", "o", "n">>
k_target == <<"t", "a", "r", "g", "e", "t">>
k_var_file == <<"v", "a", "r", "_", "f", "i", "l", "e">>
k_state == <<"s", "t", "a", "t", "e">>
k_backend_config == <<"b", "a", "c", "k", "e", "n", "d", "_", "c", "o", "n", "f", "i", "g">>
k_vars == <<"v", "a", "r", "s">>
k_refresh == <<"r", "e", "f", "r", "e", "s", "h">>
k_ignore_remote_version ==
    <<"i", "g", "n", "o", "r", "e", "_", "r", "e", "m", "o", "t", "e", "_",
      "v", "e", "r", "s", "i", "o", "n">>
k_parallelism == <<"p", "a", "r", "a", "l", "l", "e", "l", "i", "s", "m">>
k_force == <<"f", "o", "r", "c", "e">>
k_detailed_exitcode ==
    <<"d", "e", "t", "a", "i", "l", "e", "d", "_", "e", "x", "i", "t", "c", "o", "d", "e">>
k_reconfigure == <<"r", "e", "c", "o", "n", "f", "i", "g", "u", "r", "e">>
k_backend == <<"b", "a", "c", "k", "e", "n", "d">>
c_plan == <<"p", "l", "a", "n">>
c_destroy == <<"d", "e", "s", "t", "r", "o", "y">>
c_init == <<"i", "n", "i", "t">>

\* the (cmd, *args, **kwargs) a caller passes to cmd or generate_cmd_string
CommandLines ==
    << [cmd |-> c_apply, args |-> <<"plan.out">>,
        kwargs |-> << <<k_var, PyDict(<< <<<<"a">>, <<"b">>>> >>)>>, <<k_no_color, IsFlagged>> >>],
       [cmd |-> c_apply, args |-> <<>>,
        kwargs |-> << <<k_var, PyDict(<<>>)>>, <<k_input, PyBool(FALSE)>> >>],
       [cmd |-> c_workspace, args |-> <<"select", "staging">>, kwargs |-> <<>>],
       [cmd |-> c_workspace, args |-> <<>>, kwargs |-> <<>>] >>

\* the (*args, **kwargs) a caller passes to output
OutputLines ==
    << [cmd |-> c_output, args |-> <<>>, kwargs |-> <<>>],
       [cmd |-> c_output, args |-> <<"ip">>,
        kwargs |-> << <<k_var, PyDict(<< <<<<"a">>, <<"b">>>> >>)>> >>] >>

(***************************************************************************)
(* The shims: apply, plan, destroy, init and the workspace operations.  A  *)
(* dict is the sequence of its <<key, value>> entries in insertion order;  *)
(* a shim is given self (the configuration of the object), its named       *)
(* parameters and kwargs, and gives the (cmd, args, kwargs) it calls       *)
(* self.cmd with.                                                          *)
(***************************************************************************)
\* the expression  key in d
DictHas(d, key) == \E i \in DOMAIN d : d[i][1] = key

\* d[key], for a key of d
DictGet(d, key) == d[CHOOSE i \in DOMAIN d : d[i][1] = key][2]

\* d after  d[key] = value : in place for a key of d, else at the end
DictSet(d, key, value) ==
    IF DictHas(d, key)
    THEN [i \in DOMAIN d |-> IF d[i][1] = key THEN <<key, value>> ELSE d[i]]
    ELSE Append(d, <<key, value>>)

RECURSIVE DictUpdate(_, _)
\* d after  d.update(e), which is also {**d, **e}
DictUpdate(d, e) ==
    IF e = <<>> THEN d ELSE DictUpdate(DictSet(d, e[1][1], e[1][2]), Tail(e))

\* d without key: what **kwargs keeps when key is a named parameter
DictWithout(d, key) ==
    LET keep == {i \in DOMAIN d : d[i][1] # key}
        Nth[n \in 0..Len(d)] ==
            IF n = 0 THEN <<>>
            ELSE IF n \in keep THEN Append(Nth[n - 1], d[n]) ELSE Nth[n - 1]
    IN  Nth[Len(d)]

\* the value a named parameter gets from the arguments given by keyword
Param(given, key, default) == IF DictHas(given, key) THEN DictGet(given, key) ELSE default

\* [dir_or_plan] if dir_or_plan else []; dir_or_plan is Absent or Some(str)
generate_default_args(dir_or_plan) ==
    IF dir_or_plan # Absent /\ dir_or_plan[1] # "" THEN <<dir_or_plan[1]>> ELSE <<>>

\* Terraform._generate_default_options
generate_default_options(self, input_options) ==
    DictUpdate(<< <<k_state, self.state>>, <<k_target, self.targets>>,
                  <<k_var, self.variables>>, <<k_var_file, self.var_file>>,
                  <<k_parallelism, self.parallelism>>, <<k_no_color, IsFlagged>>,
                  <<k_input, PyBool(FALSE)>> >>,
               input_options)

\* Terraform.plan
plan(self, dir_or_plan, detailed_exitcode, kwargs) ==
    [cmd |-> c_plan, args |-> generate_default_args(dir_or_plan),
     kwargs |-> generate_default_options(
                    self, DictSet(kwargs, k_detailed_exitcode, detailed_exitcode))]

\* (mutant) apply runs the apply command whatever skip_plan is
apply_SkipsPlanAlways(self, dir_or_plan, input, skip_plan, no_color, kwargs) ==
    [cmd |-> c_apply, args |-> generate_default_args(dir_or_plan),
     kwargs |-> generate_default_options(
                    self, DictSet(DictSet(kwargs, k_input, input), k_no_color, no_color))]

\* Terraform.apply: with skip_plan false it is self.plan(dir_or_plan=dir_or_plan,
\* **kwargs), where a detailed_exitcode in kwargs is plan's named parameter
apply(self, dir_or_plan, input, skip_plan, no_color, kwargs) ==
    IF ~skip_plan
    THEN plan(self, dir_or_plan, Param(kwargs, k_detailed_exitcode, IsFlagged),
              DictWithout(kwargs, k_detailed_exitcode))
    ELSE [cmd |-> c_apply, args |-> generate_default_args(dir_or_plan),
          kwargs |-> generate_default_options(
                         self, DictSet(DictSet(kwargs, k_input, input),
                                       k_no_color, no_color))]

\* Terraform.destroy
destroy(self, dir_or_plan, force, kwargs) ==
    [cmd |-> c_destroy, args |-> generate_default_args(dir_or_plan),
     kwargs |-> generate_default_options(self, DictSet(kwargs, k_force, force))]

\* Terraform.init
init(self, dir_or_plan, backend_config, reconfigure, backend, kwargs) ==
    [cmd |-> c_init, args |-> generate_default_args(dir_or_plan),
     kwargs |-> generate_default_options(
                    self, DictUpdate(kwargs, << <<k_backend_config, backend_config>>,
                                                <<k_reconfigure, reconfigure>>,
                                                <<k_backend, backend>> >>))]

\* set_workspace, create_workspace and delete_workspace (verb select, new and
\* delete): self.cmd("workspace", verb, workspace, *args, **kwargs)
workspace_op(verb, workspace, args, kwargs) ==
    [cmd |-> c_workspace, args |-> <<verb, workspace>> \o args, kwargs |-> kwargs]

\* Terraform.show_workspace
show_workspace(kwargs) == [cmd |-> c_workspace, args |-> <<"show">>, kwargs |-> kwargs]

\* the shims that lay the default options under the options of the caller
DefaultingShims == {"apply", "plan", "destroy", "init"}
WorkspaceShims == {"set_workspace", "create_workspace", "delete_workspace", "show_workspace"}

\* The calls of the shims: method, dir_or_plan, skip_plan (apply only), named
\* (the named option parameters the caller gives by keyword), kwargs (the
\* other keyword arguments), and for the workspace operations workspace and args.
ShimCalls ==
    << [method |-> "apply", dir_or_plan |-> Some("plan.out"), skip_plan |-> TRUE,
        named |-> <<>>, kwargs |-> <<>>, workspace |-> "", args |-> <<>>],
       [method |-> "apply", dir_or_plan |-> Absent, skip_plan |-> TRUE,
        named |-> << <<k_input, PyBool(TRUE)>>, <<k_no_color, IsNotFlagged>> >>,
        kwargs |-> << <<k_var, PyDict(<< <<<<"a">>, <<"b">>>> >>)>>,
                      <<k_refresh, PyBool(FALSE)>> >>,
        workspace |-> "", args |-> <<>>],
       [method |-> "apply", dir_or_plan |-> Absent, skip_plan |-> FALSE,
        named |-> <<>>,
        kwargs |-> << <<k_state, PyStr(<<"o", ".", "t", "f", "s", "t", "a", "t", "e">>)>> >>,
        workspace |-> "", args |-> <<>>],
       [method |-> "apply", dir_or_plan |-> Some("plan.out"), skip_plan |-> FALSE,
        named |-> << <<k_input, PyBool(TRUE)>> >>, kwargs |-> <<>>,
        workspace |-> "", args |-> <<>>],
       [method |-> "plan", dir_or_plan |-> Some(""), skip_plan |-> TRUE,
        named |-> << <<k_detailed_exitcode, IsNotFlagged>> >>,
        kwargs |-> << <<k_target, PyList(<< <<"m", ".", "a">> >>)>> >>,
        workspace |-> "", args |-> <<>>],
       [method |-> "plan", dir_or_plan |-> Absent, skip_plan |-> TRUE,
        named |-> <<>>, kwargs |-> << <<k_no_color, IsNotFlagged>> >>,
        workspace |-> "", args |-> <<>>],
       [method |-> "destroy", dir_or_plan |-> Absent, skip_plan |-> TRUE,
        named |-> << <<k_force, IsFlagged>> >>,
        kwargs |-> << <<k_var, PyDict(<<>>)>> >>,
        workspace |-> "", args |-> <<>>],
       [method |-> "init", dir_or_plan |-> Absent, skip_plan |-> TRUE,
        named |-> << <<k_backend_config, PyDict(<< <<<<"k">>, <<"v">>>> >>)>> >>,
        kwargs |-> << <<k_input, PyBool(TRUE)>> >>,
        workspace |-> "", args |-> <<>>],
       [method |-> "init", dir_or_plan |-> Some("dir"), skip_plan |-> TRUE,
        named |-> <<>>, kwargs |-> <<>>, workspace |-> "", args |-> <<>>],
       [method |-> "set_workspace", dir_or_plan |-> Absent, skip_plan |-> TRUE,
        named |-> <<>>, kwargs |-> << <<k_no_color, IsFlagged>> >>,
        workspace |-> "staging", args |-> <<"dir">>],
       [method |-> "create_workspace", dir_or_plan |-> Absent, skip_plan |-> TRUE,
        named |-> <<>>, kwargs |-> <<>>, workspace |-> "staging", args |-> <<>>],
       [method |-> "delete_workspace", dir_or_plan |-> Absent, skip_plan |-> TRUE,
        named |-> <<>>, kwargs |-> <<>>, workspace |-> "staging", args |-> <<>>],
       [method |-> "show_workspace", dir_or_plan |-> Absent, skip_plan |-> TRUE,
        named |-> <<>>, kwargs |-> <<>>, workspace |-> "", args |-> <<>>],
       [method |-> "apply", dir_or_plan |-> Some("dir"), skip_plan |-> FALSE,
        named |-> << <<k_no_color, IsNotFlagged>> >>,
        kwargs |-> << <<k_detailed_exitcode, IsNotFlagged>>,
                      <<k_var, PyDict(<< <<<<"a">>, <<"b">>>> >>)>> >>,
        workspace |-> "", args |-> <<>>] >>

\* the (cmd, args, kwargs) the shim call sc makes self.cmd with, the named
\* parameters the caller leaves out at their defaults
Delegate(self, sc) ==
    CASE sc.method = "apply" ->
            apply(self, sc.dir_or_plan, Param(sc.named, k_input, PyBool(FALSE)),
                  sc.skip_plan, Param(sc.named, k_no_color, IsFlagged), sc.kwargs)
      [] sc.method = "plan" ->
            plan(self, sc.dir_or_plan, Param(sc.named, k_detailed_exitcode, IsFlagged),
                 sc.kwargs)
      [] sc.method = "destroy" ->
            destroy(self, sc.dir_or_plan, Param(sc.named, k_force, IsNotFlagged), sc.kwargs)
      [] sc.method = "init" ->
            init(self, sc.dir_or_plan, Param(sc.named, k_backend_config, None),
                 Param(sc.named, k_reconfigure, IsFlagged),
                 Param(sc.named, k_backend, PyBool(TRUE)), sc.kwargs)
      [] sc.method = "set_workspace" -> workspace_op("select", sc.workspace, sc.args, sc.kwargs)
      [] sc.method = "create_workspace" -> workspace_op("new", sc.workspace, sc.args, sc.kwargs)
      [] sc.method = "delete_workspace" -> workspace_op("delete", sc.workspace, sc.args, sc.kwargs)
      [] sc.method = "show_workspace" -> show_workspace(sc.kwargs)

\* a Terraform object made with state, targets and variables of its own
OwnConfig ==
    [state |-> PyStr(<<"s", ".", "t", "f", "s", "t", "a", "t", "e">>),
     targets |-> PyList(<< <<"m", ".", "b">> >>),
     variables |-> PyDict(<< <<<<"k">>, <<"v">>>> >>),
     var_file |-> None, parallelism |-> PyStr(<<"5">>)]

\* what Terraform() keeps of its arguments: state, targets, variables,
\* var_file and parallelism, when none is given
DefaultConfig ==
    [state |-> None, targets |-> PyList(<<>>), variables |-> PyDict(<<>>),
     var_file |-> None, parallelism |-> None]

(***************************************************************************)
(* The state.                                                              *)
(***************************************************************************)
VARIABLES
    config,     \* config[o]: state, targets, variables, var_file, parallelism of o
    files,      \* files[o]: self.temp_var_files.files of Terraform object o
    disk,       \* the temp files that exist: file id -> content
    nextFile,   \* the number tempfile gives the next temp file
    tfstate,    \* tfstate[o]: the generation of the state self.tfstate holds
    stateFile,  \* stateFile[o]: the generation of the state file on disk
    procs,      \* the child processes someone may still ask about: pid -> status
    pc,         \* pc[c]: where thread c is in its call
    call,       \* call[c]: the arguments of the call thread c is in
    loc,        \* loc[c]: the local variables of that call of cmd
    hist,       \* hist[c]: what that call has done so far
    outcome,    \* outcome[c]: what that call returned or raised
    ncalls      \* the number of calls made

vars == <<config, files, disk, nextFile, tfstate, stateFile, procs, pc, call, loc, hist,
          outcome, ncalls>>

NoCall ==
    [method |-> "none", obj |-> 1, line |-> 1, capture_output |-> "True",
     raise_on_error |-> TRUE, synchronous |-> TRUE]

\* kwargs, args and turns are those of an encoding pass that is followed one
\* turn of its loop at a time: the options, the positional arguments left and
\* the number of options the loop has done
NoLocals == [cmds |-> <<>>, p |-> 0, ret_code |-> 0, out |-> Absent, err |-> Absent,
             result |-> NoOutcome, kwargs |-> <<>>, args |-> <<>>, turns |-> 0]

\* created: the temp files the call's encoding pass made; deleted: the files
\* its cleanup unlinked; trackedAtStart: the tracking list when its encoding
\* pass began; spawns, reloads, cleanups: how often it ran Popen,
\* read_state_file and clean_up; child: the pid of the child it started;
\* waited: whether it ran communicate
NoHistory ==
    [created |-> {}, deleted |-> {}, trackedAtStart |-> <<>>, spawns |-> 0,
     reloads |-> 0, cleanups |-> 0, child |-> 0, waited |-> FALSE]

\* Terraform.__init__: an empty VariableFiles, and the state file read once
Init ==
    /\ config = [o \in Objects |-> DefaultConfig]
    /\ files = [o \in Objects |-> <<>>]
    /\ disk = <<>>
    /\ nextFile = 1
    /\ tfstate = [o \in Objects |-> 0]
    /\ stateFile = [o \in Objects |-> 0]
    /\ procs = <<>>
    /\ pc = [c \in Threads |-> "idle"]
    /\ call = [c \in Threads |-> NoCall]
    /\ loc = [c \in Threads |-> NoLocals]
    /\ hist = [c \in Threads |-> NoHistory]
    /\ outcome = [c \in Threads |-> NoOutcome]
    /\ ncalls = 0
(***************************************************************************)
(* The operations.                                                         *)
(***************************************************************************)
\* the (cmd, args, kwargs) of the call thread c is in; output adds
\* kwargs["json"] = IsFlagged and calls self.output_cmd, which is cmd("output")
CallLine(c) ==
    IF call[c].method = "output"
    THEN LET l == OutputLines[call[c].line]
         IN  [l EXCEPT !.kwargs = Append(@, <<k_json, IsFlagged>>)]
    ELSE IF call[c].method \in DefaultingShims \cup WorkspaceShims
    THEN Delegate(config[call[c].obj], ShimCalls[call[c].line])
    ELSE CommandLines[call[c].line]

\* the tracking list of o with the files of made appended (self.files.append)
Track(tracked, made) == tracked \o [i \in 1..Len(made) |-> made[i].id]

\* (mutant) the files of made replace the files on the disk
Written_OnlyNew(d, made) ==
    [f \in {made[i].id : i \in 1..Len(made)} |->
        made[CHOOSE i \in 1..Len(made) : made[i].id = f].content]

\* the disk with the files of made written
Written(d, made) ==
    [f \in DOMAIN d \cup {made[i].id : i \in 1..Len(made)} |->
        IF f \in DOMAIN d THEN d[f]
        ELSE made[CHOOSE i \in 1..Len(made) : made[i].id = f].content]

\* the disk with the files of gone unlinked
Unlinked(d, gone) == [f \in DOMAIN d \ gone |-> d[f]]

\* A thread calls cmd(cmd, *args, capture_output, raise_on_error, synchronous,
\* **kwargs): the stream handles are chosen and the encoding pass is next.
BeginCmd(c, objs, lines, modes, raises, syncs) ==
    /\ pc[c] \in {"idle", "done"}
    /\ ncalls < MaxCalls
    /\ \E o \in objs, l \in lines, m \in modes, r \in raises, s \in syncs :
          call' = [call EXCEPT ![c] =
                      [method |-> "cmd", obj |-> o, line |-> l, capture_output |-> m,
                       raise_on_error |-> r, synchronous |-> s]]
    /\ pc' = [pc EXCEPT ![c] = "encode"]
    /\ loc' = [loc EXCEPT ![c] = NoLocals]
    /\ hist' = [hist EXCEPT ![c] = NoHistory]
    /\ outcome' = [outcome EXCEPT ![c] = NoOutcome]
    /\ ncalls' = ncalls + 1
    /\ UNCHANGED <<config, files, disk, nextFile, tfstate, stateFile, procs>>

Cmd(c) ==
    BeginCmd(c, {MainObject}, DOMAIN CommandLines, CaptureModes, BOOLEAN, BOOLEAN)

\* (mutant) the test left out: output goes on to output_cmd
OutputRejects_Never(capture_output) == FALSE

\* the test  if capture_output is False  that guards the raise of ValueError
OutputRejects(capture_output) == capture_output = FALSE

\* A thread calls output(*args, capture_output, **kwargs): ValueError when
\* capture_output is False, else output_cmd(*args, **kwargs), which is cmd with
\* capture_output left at True; raise_on_error and synchronous come through
\* kwargs and default to True.  call[c].capture_output holds the capture_output
\* given to output; the call of cmd it makes, if any, has True.
BeginOutput(c, objs, lines, captures, raises, syncs) ==
    /\ pc[c] \in {"idle", "done"}
    /\ ncalls < MaxCalls
    /\ \E o \in objs, l \in lines, cap \in captures, r \in raises, s \in syncs :
          /\ call' = [call EXCEPT ![c] =
                         [method |-> "output", obj |-> o, line |-> l,
                          capture_output |-> IF cap THEN "True" ELSE "False",
                          raise_on_error |-> r, synchronous |-> s]]
          /\ pc' = [pc EXCEPT ![c] = IF OutputRejects(cap) THEN "done" ELSE "encode"]
          /\ outcome' = [outcome EXCEPT ![c] =
                            IF OutputRejects(cap) THEN Raised("ValueError")
                            ELSE NoOutcome]
    /\ loc' = [loc EXCEPT ![c] = NoLocals]
    /\ hist' = [hist EXCEPT ![c] = NoHistory]
    /\ ncalls' = ncalls + 1
    /\ UNCHANGED <<config, files, disk, nextFile, tfstate, stateFile, procs>>

Output(c) ==
    BeginOutput(c, {MainObject}, DOMAIN OutputLines, BOOLEAN, BOOLEAN, BOOLEAN)

\* A thread calls generate_cmd_string(cmd, *args, **kwargs) itself: the
\* tokens are returned and the temp files of the pass stay tracked.
GenerateCmdString(c) ==
    /\ pc[c] \in {"idle", "done"}
    /\ ncalls < MaxCalls
    /\ \E o \in {MainObject}, l \in DOMAIN CommandLines :
          LET line == CommandLines[l]
              r == generate_cmd_string(line.cmd, line.args, line.kwargs, nextFile)
          IN  /\ call' = [call EXCEPT ![c] = [NoCall EXCEPT !.method = "generate_cmd_string",
                                                            !.obj = o, !.line = l]]
              /\ files' = [files EXCEPT ![o] = Track(@, r.made)]
              /\ disk' = Written(disk, r.made)
              /\ nextFile' = nextFile + Len(r.made)
              /\ loc' = [loc EXCEPT ![c] = [NoLocals EXCEPT !.cmds = r.cmds]]
              /\ hist' = [hist EXCEPT ![c] =
                             [NoHistory EXCEPT !.trackedAtStart = files[o],
                                               !.created = {r.made[i].id : i \in 1..Len(r.made)}]]
              /\ outcome' = [outcome EXCEPT ![c] =
                                IF r.error = "none" THEN [NoOutcome EXCEPT !.kind = "returned"]
                                ELSE Raised(r.error)]
    /\ pc' = [pc EXCEPT ![c] = "done"]
    /\ ncalls' = ncalls + 1
    /\ UNCHANGED <<config, tfstate, stateFile, procs>>

\* cmds = self.generate_cmd_string(cmd, *args, **kwargs) inside cmd
Encode(c) ==
    /\ pc[c] = "encode"
    /\ LET o == call[c].obj
           line == CallLine(c)
           r == generate_cmd_string(line.cmd, line.args, line.kwargs, nextFile)
       IN  /\ files' = [files EXCEPT ![o] = Track(@, r.made)]
           /\ disk' = Written(disk, r.made)
           /\ nextFile' = nextFile + Len(r.made)
           /\ loc' = [loc EXCEPT ![c].cmds = r.cmds]
           /\ hist' = [hist EXCEPT ![c].trackedAtStart = files[o],
                                   ![c].created = {r.made[i].id : i \in 1..Len(r.made)}]
           /\ pc' = [pc EXCEPT ![c] = IF r.error = "none" THEN "spawn" ELSE "done"]
           /\ outcome' = [outcome EXCEPT ![c] =
                             IF r.error = "none" THEN @ ELSE Raised(r.error)]
    /\ UNCHANGED <<config, tfstate, stateFile, procs, call, ncalls>>
\* cmd ends with result r: a raise goes to the caller, through output as well;
\* a returned tuple goes to the caller of cmd, or to the rest of output
EndCmd(c, r) ==
    IF r.kind = "returned" /\ call[c].method = "output"
    THEN /\ pc' = [pc EXCEPT ![c] = "output"]
         /\ loc' = [loc EXCEPT ![c].result = r]
         /\ outcome' = outcome
    ELSE /\ pc' = [pc EXCEPT ![c] = "done"]
         /\ loc' = loc
         /\ outcome' = [outcome EXCEPT ![c] = r]

\* the pid of the next child process
NewPid == CHOOSE p \in 1..(Cardinality(DOMAIN procs) + 1) : p \notin DOMAIN procs

\* p = subprocess.Popen(cmds, ...) starts the child; then, if not synchronous,
\* return None, None, None
Spawn(c) ==
    /\ pc[c] = "spawn"
    /\ procs' = [p \in DOMAIN procs \cup {NewPid} |->
                    IF p = NewPid
                    THEN [state |-> "running", rc |-> 0, obj |-> call[c].obj,
                          awaited |-> ~ReturnsAtOnce(call[c].synchronous)]
                    ELSE procs[p]]
    /\ hist' = [hist EXCEPT ![c].spawns = @ + 1, ![c].child = NewPid]
    /\ IF ReturnsAtOnce(call[c].synchronous)
       THEN EndCmd(c, Returned(Absent, Absent, Absent))
       ELSE /\ pc' = [pc EXCEPT ![c] = "wait"]
            /\ loc' = [loc EXCEPT ![c].p = NewPid]
            /\ outcome' = outcome
    /\ UNCHANGED <<config, files, disk, nextFile, tfstate, stateFile, call, ncalls>>

\* subprocess.Popen raises OSError: no binary at terraform_bin_path, no such
\* working directory
SpawnFails(c) ==
    /\ pc[c] = "spawn"
    /\ pc' = [pc EXCEPT ![c] = "done"]
    /\ outcome' = [outcome EXCEPT ![c] = Raised("OSError")]
    /\ UNCHANGED <<config, files, disk, nextFile, tfstate, stateFile, procs, call,
                   loc, hist, ncalls>>

\* A child process exits with some exit code; one that succeeded may have
\* written a new state file.  The exit code is kept for the call that waits
\* for the child; nobody asks for the exit code of a child that no call waits for.
Exit(p, codes, writes) ==
    /\ p \in DOMAIN procs
    /\ procs[p].state = "running"
    /\ \E rc \in codes, wrote \in writes :
          /\ procs' = IF procs[p].awaited
                       THEN [procs EXCEPT ![p].state = "exited", ![p].rc = rc]
                       ELSE [q \in DOMAIN procs \ {p} |-> procs[q]]
          /\ stateFile' = IF rc = 0 /\ wrote
                          THEN [stateFile EXCEPT ![procs[p].obj] = @ + 1]
                          ELSE stateFile
    /\ UNCHANGED <<config, files, disk, nextFile, tfstate, pc, call, loc, hist,
                   outcome, ncalls>>

ChildExit(p) == Exit(p, ExitCodes, BOOLEAN)

\* (mutant) a child that failed is started again
AfterCommunicate_Retries(ret_code) ==
    IF ShouldReload(ret_code) THEN "reload" ELSE "spawn"

\* where cmd goes on after communicate: to the reload, or past it to clean_up
AfterCommunicate(ret_code) ==
    IF ShouldReload(ret_code) THEN "reload" ELSE "cleanup"

\* out, err = p.communicate(); ret_code = p.returncode: returns once the child
\* has exited, with what it wrote to the pipes (None for a stream not piped)
Wait(c, outs, errs) ==
    /\ pc[c] = "wait"
    /\ loc[c].p \in DOMAIN procs
    /\ procs[loc[c].p].state = "exited"
    /\ \E o \in outs, e \in errs :
          loc' = [loc EXCEPT ![c].ret_code = procs[loc[c].p].rc,
                             ![c].out = IF call[c].capture_output = "True" THEN Some(o) ELSE Absent,
                             ![c].err = IF call[c].capture_output = "True" THEN Some(e) ELSE Absent]
    /\ procs' = [p \in DOMAIN procs \ {loc[c].p} |-> procs[p]]
    /\ hist' = [hist EXCEPT ![c].waited = TRUE]
    /\ pc' = [pc EXCEPT ![c] = AfterCommunicate(procs[loc[c].p].rc)]
    /\ UNCHANGED <<config, files, disk, nextFile, tfstate, stateFile, call, outcome,
                   ncalls>>

Communicate(c) == Wait(c, StdoutChoices, StderrChoices)

\* self.read_state_file() loads the state file
ReloadState(c) ==
    /\ pc[c] = "reload"
    /\ tfstate' = [tfstate EXCEPT ![call[c].obj] = stateFile[call[c].obj]]
    /\ hist' = [hist EXCEPT ![c].reloads = @ + 1]
    /\ pc' = [pc EXCEPT ![c] = "cleanup"]
    /\ UNCHANGED <<config, files, disk, nextFile, stateFile, procs, call, loc,
                   outcome, ncalls>>

\* self.read_state_file() raises: the state file is malformed
ReloadFails(c) ==
    /\ pc[c] = "reload"
    /\ hist' = [hist EXCEPT ![c].reloads = @ + 1]
    /\ pc' = [pc EXCEPT ![c] = "done"]
    /\ outcome' = [outcome EXCEPT ![c] = Raised("StateReadError")]
    /\ UNCHANGED <<config, files, disk, nextFile, tfstate, stateFile, procs, call,
                   loc, ncalls>>

\* the tracked files of a tracking list, as a set
Tracked(tracked) == {tracked[i] : i \in 1..Len(tracked)}

\* (mutant) clean_up forgets the tracked files without unlinking them
UnlinkedByLoop_None(tracked, d) == {}

\* the files the loop of clean_up unlinks before a file that is gone stops it:
\* all of them when every tracked file is on disk
UnlinkedByLoop(tracked, d) ==
    {tracked[i] : i \in {j \in 1..Len(tracked) :
                            \A k \in 1..j : tracked[k] \in DOMAIN d}}

\* self.temp_var_files.clean_up(), the loop: for f in self.files: os.unlink(f.name)
CleanUp(c) ==
    /\ pc[c] = "cleanup"
    /\ Tracked(files[call[c].obj]) \subseteq DOMAIN disk
    /\ disk' = Unlinked(disk, UnlinkedByLoop(files[call[c].obj], disk))
    /\ hist' = [hist EXCEPT ![c].cleanups = @ + 1,
                            ![c].deleted = UnlinkedByLoop(files[call[c].obj], disk)]
    /\ pc' = [pc EXCEPT ![c] = "untrack"]
    /\ UNCHANGED <<config, files, nextFile, tfstate, stateFile, procs, call, loc,
                   outcome, ncalls>>

\* the loop of clean_up meets a tracked file that is gone: os.unlink raises
\* FileNotFoundError and the tracking list stays as it is
CleanUpFails(c) ==
    /\ pc[c] = "cleanup"
    /\ ~(Tracked(files[call[c].obj]) \subseteq DOMAIN disk)
    /\ disk' = Unlinked(disk, UnlinkedByLoop(files[call[c].obj], disk))
    /\ hist' = [hist EXCEPT ![c].cleanups = @ + 1,
                            ![c].deleted = UnlinkedByLoop(files[call[c].obj], disk)]
    /\ pc' = [pc EXCEPT ![c] = "done"]
    /\ outcome' = [outcome EXCEPT ![c] = Raised("FileNotFoundError")]
    /\ UNCHANGED <<config, files, nextFile, tfstate, stateFile, procs, call, loc,
                   ncalls>>

\* clean_up, after the loop: self.files = []
Untrack(c) ==
    /\ pc[c] = "untrack"
    /\ files' = [files EXCEPT ![call[c].obj] = <<>>]
    /\ pc' = [pc EXCEPT ![c] = "normalize"]
    /\ UNCHANGED <<config, disk, nextFile, tfstate, stateFile, procs, call, loc,
                   hist, outcome, ncalls>>

\* the rest of cmd: decode or drop the streams, raise or return
Finish(c) ==
    /\ pc[c] = "normalize"
    /\ EndCmd(c, Normalize(loc[c].ret_code, loc[c].out, loc[c].err,
                           call[c].capture_output, call[c].raise_on_error, loc[c].cmds))
    /\ UNCHANGED <<config, files, disk, nextFile, tfstate, stateFile, procs, call,
                   hist, ncalls>>

\* the rest of output, once output_cmd has returned ret, out, _
OutputFinish(c) ==
    /\ pc[c] = "output"
    /\ outcome' = [outcome EXCEPT ![c] = OutputResult(loc[c].result.ret, loc[c].result.out)]
    /\ pc' = [pc EXCEPT ![c] = "done"]
    /\ UNCHANGED <<config, files, disk, nextFile, tfstate, stateFile, procs, call,
                   loc, hist, ncalls>>

(***************************************************************************)
(* The specifications.  Spec: one thread makes its calls one after the     *)
(* other.  SpecConc: the threads make their calls at the same time.        *)
(***************************************************************************)
MainThread == {1}

Next ==
    \/ \E c \in MainThread :
          \/ Cmd(c) \/ Output(c) \/ GenerateCmdString(c)
          \/ Encode(c) \/ Spawn(c) \/ SpawnFails(c) \/ Communicate(c)
          \/ ReloadState(c) \/ ReloadFails(c) \/ CleanUp(c) \/ Untrack(c)
          \/ Finish(c) \/ OutputFinish(c)
    \/ \E p \in DOMAIN procs : ChildExit(p)

Spec == Init /\ [][Next]_vars
\* the calls of cmd that run at the same time: with and without a var map,
\* waiting for the child or not, on either object
CmdConc(c) == BeginCmd(c, Objects, {1, 3}, {"True"}, {FALSE}, BOOLEAN)

\* their children: what they write and whether they write a state file are
\* of no interest here
CommunicateConc(c) == Wait(c, {<<111, 107>>}, {<<>>})
ChildExitConc(p) == Exit(p, {0, 1}, {FALSE})

NextConc ==
    \/ \E c \in Threads :
          \/ CmdConc(c)
          \/ Encode(c) \/ Spawn(c) \/ SpawnFails(c) \/ CommunicateConc(c)
          \/ ReloadState(c) \/ ReloadFails(c) \/ CleanUp(c) \/ CleanUpFails(c)
          \/ Untrack(c) \/ Finish(c)
    \/ \E p \in DOMAIN procs : ChildExitConc(p)

SpecConc == Init /\ [][NextConc]_vars
(***************************************************************************)
(* SpecShims: one thread calls cmd, output and the shims one after the     *)
(* other, on an object made with or without defaults of its own.  What the *)
(* children write is of no interest here.                                  *)
(***************************************************************************)
InitShims ==
    /\ config \in [Objects -> {DefaultConfig, OwnConfig}]
    /\ config[MainObject] = OwnConfig \/ \A o \in Objects : config[o] = DefaultConfig
    /\ files = [o \in Objects |-> <<>>]
    /\ disk = <<>>
    /\ nextFile = 1
    /\ tfstate = [o \in Objects |-> 0]
    /\ stateFile = [o \in Objects |-> 0]
    /\ procs = <<>>
    /\ pc = [c \in Threads |-> "idle"]
    /\ call = [c \in Threads |-> NoCall]
    /\ loc = [c \in Threads |-> NoLocals]
    /\ hist = [c \in Threads |-> NoHistory]
    /\ outcome = [c \in Threads |-> NoOutcome]
    /\ ncalls = 0

\* A thread calls a shim: the shim makes its options and calls self.cmd, which
\* takes capture_output, raise_on_error and synchronous at their defaults.
ShimCall(c) ==
    /\ pc[c] \in {"idle", "done"}
    /\ ncalls < MaxCalls
    /\ \E l \in DOMAIN ShimCalls :
          call' = [call EXCEPT ![c] =
                      [method |-> ShimCalls[l].method, obj |-> MainObject, line |-> l,
                       capture_output |-> "True", raise_on_error |-> TRUE,
                       synchronous |-> TRUE]]
    /\ pc' = [pc EXCEPT ![c] = "encode"]
    /\ loc' = [loc EXCEPT ![c] = NoLocals]
    /\ hist' = [hist EXCEPT ![c] = NoHistory]
    /\ outcome' = [outcome EXCEPT ![c] = NoOutcome]
    /\ ncalls' = ncalls + 1
    /\ UNCHANGED <<config, files, disk, nextFile, tfstate, stateFile, procs>>

CmdShims(c) == BeginCmd(c, {MainObject}, {1, 4}, {"True"}, {TRUE}, BOOLEAN)
OutputShims(c) == BeginOutput(c, {MainObject}, {1}, BOOLEAN, {TRUE}, {TRUE})
CommunicateShims(c) == Wait(c, {<<111, 107>>}, {<<>>})
ChildExitShims(p) == Exit(p, {0, 1}, {FALSE})

NextShims ==
    \/ \E c \in MainThread :
          \/ ShimCall(c) \/ CmdShims(c) \/ OutputShims(c)
          \/ Encode(c) \/ Spawn(c) \/ SpawnFails(c) \/ CommunicateShims(c)
          \/ ReloadState(c) \/ ReloadFails(c) \/ CleanUp(c) \/ Untrack(c)
          \/ Finish(c) \/ OutputFinish(c)
    \/ \E p \in DOMAIN procs : ChildExitShims(p)

SpecShims == InitShims /\ [][NextShims]_vars

(***************************************************************************)
(* SpecGone: one thread makes its calls one after the other while temp     *)
(* files are removed from the disk by something else (a cleaner of the     *)
(* temp directory, the user).                                              *)
(***************************************************************************)
\* a temp file is removed by something other than clean_up
FileRemoved(f) ==
    /\ f \in DOMAIN disk
    /\ disk' = Unlinked(disk, {f})
    /\ UNCHANGED <<config, files, nextFile, tfstate, stateFile, procs, pc, call,
                   loc, hist, outcome, ncalls>>

CmdGone(c) == BeginCmd(c, {MainObject}, {1, 2}, {"True"}, BOOLEAN, BOOLEAN)
CommunicateGone(c) == Wait(c, {<<111, 107>>}, {<<>>})
ChildExitGone(p) == Exit(p, {0, 1}, {FALSE})

NextGone ==
    \/ \E c \in MainThread :
          \/ CmdGone(c)
          \/ Encode(c) \/ Spawn(c) \/ CommunicateGone(c) \/ ReloadState(c)
          \/ CleanUp(c) \/ CleanUpFails(c) \/ Untrack(c) \/ Finish(c)
    \/ \E p \in DOMAIN procs : ChildExitGone(p)
    \/ \E f \in DOMAIN disk : FileRemoved(f)

SpecGone == Init /\ [][NextGone]_vars

(***************************************************************************)
(* SpecEncode: generate_cmd_string alone, called by one thread on one      *)
(* object and followed one turn of its loop at a time, over commands,      *)
(* positional arguments and options of every kind the encoder tells apart. *)
(* Earlier passes of the object have left up to MaxEarlier temp files      *)
(* tracked and on disk.                                                    *)
(***************************************************************************)
MaxOptions == 2
MaxEarlier == 2

\* the commands and positional arguments of the encoding passes
EncoderShapes ==
    << [cmd |-> c_apply, args |-> <<>>],
       [cmd |-> c_apply, args |-> <<"plan.out">>],
       [cmd |-> c_state_list, args |-> <<>>],
       [cmd |-> c_workspace, args |-> <<"select", "staging">>],
       [cmd |-> c_workspace, args |-> <<"show">>],
       [cmd |-> c_workspace, args |-> <<>>],
       [cmd |-> c_state_list, args |-> <<"-id=i", "m.a">>] >>

\* the options a call is given some of
OptionPool ==
    << <<k_var, PyDict(<< <<<<"a">>, <<"b">>>> >>)>>,
       <<k_var, PyDict(<< <<<<"k">>, <<"a", ",", " ", "b">>>>,
                          <<<<"q">>, <<"x", "\"", ":", "\\">>>> >>)>>,
       <<k_var, PyDict(<<>>)>>,
       <<k_target, PyList(<< <<"m", ".", "a">>, <<"m", ".", "b">> >>)>>,
       <<k_target, PyList(<<>>)>>,
       <<k_var_file, PyList(<< <<"a", ".", "t", "f", "v", "a", "r", "s">> >>)>>,
       <<k_no_color, IsFlagged>>,
       <<k_no_color, IsNotFlagged>>,
       <<k_state, None>>,
       <<k_state, PyStr(<<"s", ".", "t", "f", "s", "t", "a", "t", "e">>)>>,
       <<k_backend_config, PyDict(<< <<<<"k">>, <<"v">>>>, <<<<"r">>, <<"s">>>> >>)>>,
       <<k_backend_config, PyDict(<<>>)>>,
       <<k_input, PyBool(FALSE)>>,
       <<k_refresh, PyBool(TRUE)>>,
       <<k_vars, PyDict(<< <<<<"a">>, <<"b">>>> >>)>>,
       <<k_ignore_remote_version, PyBool(TRUE)>> >>

\* the keyword arguments of a call: up to MaxOptions options of the pool under
\* different names, in any order
KwargsChoices ==
    {[j \in DOMAIN ix |-> OptionPool[ix[j]]] :
        ix \in {jx \in UNION {[1..n -> DOMAIN OptionPool] : n \in 0..MaxOptions} :
                   \A a, b \in DOMAIN jx :
                       a # b => OptionPool[jx[a]][1] # OptionPool[jx[b]][1]}}

\* the temp files n earlier passes with the var map {"a": "b"} have left
EarlierFiles(n) == [i \in 1..n |-> Create(i, <<<<<<"a">>, <<"b">>>>>>)]

\* the object after construction and up to MaxEarlier passes of the encoder
InitEncode ==
    /\ config = [o \in Objects |-> DefaultConfig]
    /\ \E n \in 0..MaxEarlier :
          /\ files = [o \in Objects |->
                         IF o = MainObject THEN Track(<<>>, EarlierFiles(n)) ELSE <<>>]
          /\ disk = Written(<<>>, EarlierFiles(n))
          /\ nextFile = n + 1
    /\ tfstate = [o \in Objects |-> 0]
    /\ stateFile = [o \in Objects |-> 0]
    /\ procs = <<>>
    /\ pc = [c \in Threads |-> "idle"]
    /\ call = [c \in Threads |-> NoCall]
    /\ loc = [c \in Threads |-> NoLocals]
    /\ hist = [c \in Threads |-> NoHistory]
    /\ outcome = [c \in Threads |-> NoOutcome]
    /\ ncalls = 0

\* generate_cmd_string(cmd, *args, **kwargs) is called: cmds is made of the
\* binary and cmd, and args.pop(0) gives the sub-command or raises IndexError
EncodeBegin(c) ==
    /\ pc[c] = "idle"
    /\ \E sh \in DOMAIN EncoderShapes, kw \in KwargsChoices :
          LET shape == EncoderShapes[sh]
              fails == PopFails(shape.cmd, shape.args)
          IN  /\ call' = [call EXCEPT ![c] = [NoCall EXCEPT !.method = "generate_cmd_string",
                                                            !.obj = MainObject, !.line = sh]]
              /\ loc' = [loc EXCEPT ![c] =
                            IF fails THEN NoLocals
                            ELSE [NoLocals EXCEPT
                                     !.cmds = CommandTokens(shape.cmd, shape.args),
                                     !.args = TrailingArgs(shape.cmd, shape.args),
                                     !.kwargs = kw]]
              /\ pc' = [pc EXCEPT ![c] = IF fails THEN "done" ELSE "options"]
              /\ outcome' = [outcome EXCEPT ![c] =
                                IF fails THEN Raised("IndexError") ELSE NoOutcome]
    /\ hist' = [hist EXCEPT ![c] = [NoHistory EXCEPT !.trackedAtStart = files[MainObject]]]
    /\ ncalls' = ncalls + 1
    /\ UNCHANGED <<config, files, disk, nextFile, tfstate, stateFile, procs>>

\* one turn of  for option, value in kwargs.items()
EncodeTurn(c) ==
    /\ pc[c] = "options"
    /\ loc[c].turns < Len(loc[c].kwargs)
    /\ LET o == call[c].obj
           kv == loc[c].kwargs[loc[c].turns + 1]
           st == EncodeOption(kv[1], kv[2], [cmds |-> loc[c].cmds, made |-> <<>>], nextFile)
       IN  /\ loc' = [loc EXCEPT ![c].cmds = st.cmds, ![c].turns = @ + 1]
           /\ files' = [files EXCEPT ![o] = Track(@, st.made)]
           /\ disk' = Written(disk, st.made)
           /\ nextFile' = nextFile + Len(st.made)
           /\ hist' = [hist EXCEPT ![c].created =
                          @ \cup {st.made[i].id : i \in 1..Len(st.made)}]
    /\ UNCHANGED <<config, tfstate, stateFile, procs, pc, call, outcome, ncalls>>

\* the loop is over:  cmds += args  and  return cmds
EncodeReturn(c) ==
    /\ pc[c] = "options"
    /\ loc[c].turns = Len(loc[c].kwargs)
    /\ loc' = [loc EXCEPT ![c].cmds = @ \o loc[c].args]
    /\ pc' = [pc EXCEPT ![c] = "done"]
    /\ outcome' = [outcome EXCEPT ![c] = [NoOutcome EXCEPT !.kind = "returned"]]
    /\ UNCHANGED <<config, files, disk, nextFile, tfstate, stateFile, procs, call, hist, ncalls>>

NextEncode ==
    \E c \in MainThread : EncodeBegin(c) \/ EncodeTurn(c) \/ EncodeReturn(c)

SpecEncode == InitEncode /\ [][NextEncode]_vars

(***************************************************************************)
(* What a call of cmd has come to.                                         *)
(***************************************************************************)
\* thread c is in, or has ended, a call of cmd: its own, or the one output makes
InCmd(c) ==
    \/ call[c].method = "cmd"
    \/ call[c].method = "output" /\ outcome[c].error # "ValueError"

\* what that call of cmd returned or raised; NoOutcome while it runs
CmdResult(c) == IF loc[c].result.kind # "none" THEN loc[c].result ELSE outcome[c]

\* the call of cmd has ended on one of its exit paths
CmdExited(c) == InCmd(c) /\ CmdResult(c).kind # "none"

\* it ended by the return of the tuple or by TerraformCommandError
EndedByTuple(c) == CmdExited(c) /\ CmdResult(c).kind = "returned"
EndedByCommandError(c) == CmdExited(c) /\ CmdResult(c).error = "TerraformCommandError"

\* the temp files of the call's encoding pass that still exist or are still tracked
Leaked(c) ==
    hist[c].created \cap (DOMAIN disk \cup Tracked(files[call[c].obj]))

(***************************************************************************)
(* C1.  clean_up is invoked exactly once per call of cmd on every exit     *)
(* path (return with exit code 0, return or raise with a nonzero exit      *)
(* code, fire-and-forget return, an exception of Popen, an exception of    *)
(* the state reload), so no temp file of the call's encoding pass still    *)
(* exists or is still tracked once the call has ended.  The code runs      *)
(* clean_up only on the paths that reach the line after the reload.        *)
(***************************************************************************)
C1_CleanupOnEveryExitPath ==
    \A c \in Threads :
        (CmdExited(c) /\ CmdResult(c).error \in {"", "TerraformCommandError", "OSError", "StateReadError"})
            => hist[c].cleanups = 1 /\ Leaked(c) = {}

(***************************************************************************)
(* C2.  Two calls of cmd that run at the same time, each with a non-empty  *)
(* var map, have isolated temp files: while a call waits for its child,    *)
(* the temp file of its encoding pass exists and is tracked, whatever the  *)
(* cleanup of the other call does.  On one Terraform object the calls      *)
(* share one tracking list, and the cleanup of one unlinks the file of     *)
(* the other.                                                              *)
(***************************************************************************)
C2_IsolatedTempFiles ==
    \A c \in Threads :
        (InCmd(c) /\ pc[c] = "wait")
            => /\ hist[c].created \subseteq DOMAIN disk
               /\ hist[c].created \subseteq Tracked(files[call[c].obj])

(***************************************************************************)
(* C3.  In a synchronous call of cmd the state reload is invoked exactly   *)
(* once, after the wait, when the exit code is 0, and never when it is     *)
(* not 0; a fire-and-forget call never invokes it.                         *)
(***************************************************************************)
C3_ReloadOnceIffExitZero ==
    \A c \in Threads :
        InCmd(c) =>
            /\ ~hist[c].waited => hist[c].reloads = 0
            /\ ~call[c].synchronous => hist[c].reloads = 0 /\ ~hist[c].waited
            /\ (hist[c].waited /\ loc[c].ret_code # 0) => hist[c].reloads = 0
            /\ (hist[c].waited /\ loc[c].ret_code = 0 /\ pc[c] # "reload")
                   => hist[c].reloads = 1

\* a synchronous call whose child exited with 0 has returned after one reload,
\* and one whose child exited with another code has ended without any
C3_Witness ==
    \E c \in Threads :
        /\ InCmd(c) /\ call[c].synchronous /\ EndedByTuple(c)
        /\ loc[c].ret_code = 0 /\ hist[c].reloads = 1 /\ tfstate[call[c].obj] > 0

(***************************************************************************)
(* C4.  A synchronous call of cmd that gets to the end of cmd raises       *)
(* TerraformCommandError if and only if the exit code is not 0 and         *)
(* raise_on_error is true, negative exit codes included; else it returns   *)
(* the tuple.  The code tests ret_code > 0, so a child killed by a signal  *)
(* (a negative returncode) is returned as data.                            *)
(***************************************************************************)
C4_RaisesIffNonzero ==
    \A c \in Threads :
        (call[c].method = "cmd" /\ call[c].synchronous
            /\ (EndedByTuple(c) \/ EndedByCommandError(c)))
            => (EndedByCommandError(c)
                    <=> (loc[c].ret_code # 0 /\ call[c].raise_on_error))

(***************************************************************************)
(* C5.  output, called with capture enabled and default options, returns   *)
(* None and raises nothing whenever the output command exits with a code   *)
(* that is not 0.  The code calls cmd with raise_on_error left at True, so *)
(* a positive exit code raises TerraformCommandError out of output.        *)
(***************************************************************************)
C5_OutputNoneOnNonzero ==
    \A c \in Threads :
        (/\ call[c].method = "output" /\ call[c].raise_on_error /\ call[c].synchronous
         /\ pc[c] = "done" /\ hist[c].waited /\ loc[c].ret_code # 0
         /\ ~DecodeFails(loc[c].out[1]) /\ ~DecodeFails(loc[c].err[1]))
            => outcome[c].kind = "returned" /\ outcome[c].value = Absent
(***************************************************************************)
(* C6, as stated.  The tuple cmd returns has all three components absent   *)
(* whenever the call was fire-and-forget or capture was disabled, and      *)
(* only then.  A synchronous call with capture disabled returns the exit   *)
(* code of the child with both streams absent.                             *)
(***************************************************************************)
C6_AllAbsentIffDetachedOrNoCapture ==
    \A c \in Threads :
        EndedByTuple(c) =>
            ((CmdResult(c).ret = Absent /\ CmdResult(c).out = Absent /\ CmdResult(c).err = Absent)
                <=> (~call[c].synchronous \/ call[c].capture_output # "True"))

(***************************************************************************)
(* C6, amended.  The tuple cmd returns has its stdout and stderr absent    *)
(* whenever the call was fire-and-forget or capture was disabled, and      *)
(* only then; its exit code is absent exactly when the call was            *)
(* fire-and-forget.                                                        *)
(***************************************************************************)
C6_StreamsAbsentIffDetachedOrNoCapture ==
    \A c \in Threads :
        EndedByTuple(c) =>
            /\ (CmdResult(c).out = Absent /\ CmdResult(c).err = Absent)
                    <=> (~call[c].synchronous \/ call[c].capture_output # "True")
            /\ CmdResult(c).out = Absent <=> CmdResult(c).err = Absent
            /\ CmdResult(c).ret = Absent <=> ~call[c].synchronous
            /\ call[c].synchronous => CmdResult(c).ret = Some(loc[c].ret_code)

\* a synchronous call with capture disabled has returned an exit code and no streams
C6_Witness ==
    \E c \in Threads :
        /\ EndedByTuple(c) /\ call[c].synchronous /\ call[c].capture_output # "True"
        /\ CmdResult(c).ret # Absent /\ CmdResult(c).out = Absent

(***************************************************************************)
(* C7.  After a synchronous call of cmd that ended with the exit code of   *)
(* its child (the tuple returned with exit code 0 or with another code,    *)
(* or TerraformCommandError raised), the tracking list is empty and every  *)
(* temp file created during the call is deleted; the deletion comes        *)
(* before the error is raised: it is done when the call gets to the lines  *)
(* that raise or return.                                                   *)
(***************************************************************************)
C7_CleanAfterSynchronousCall ==
    \A c \in Threads :
        (/\ InCmd(c) /\ call[c].synchronous
         /\ (pc[c] = "normalize" \/ EndedByTuple(c) \/ EndedByCommandError(c)))
            => /\ files[call[c].obj] = <<>>
               /\ hist[c].created \cap DOMAIN disk = {}
               /\ hist[c].cleanups = 1

\* a call that created a temp file has raised TerraformCommandError
C7_Witness ==
    \E c \in Threads :
        /\ InCmd(c) /\ call[c].synchronous /\ EndedByCommandError(c)
        /\ hist[c].created # {} /\ hist[c].deleted = hist[c].created

(***************************************************************************)
(* C8.  The temp files are scoped to one invocation: when a call of cmd    *)
(* starts its encoding pass the tracking list is empty, and the files its  *)
(* cleanup deletes are the files its own encoding pass created.  A         *)
(* fire-and-forget call and a call of generate_cmd_string leave their      *)
(* files tracked, and the cleanup of a later call deletes them.            *)
(***************************************************************************)
C8_ScopedToOneInvocation ==
    \A c \in Threads :
        InCmd(c) =>
            /\ pc[c] = "encode" => files[call[c].obj] = <<>>
            /\ hist[c].cleanups = 1 => hist[c].deleted = hist[c].created

(***************************************************************************)
(* C9.  A call of cmd with synchronous=False starts its child once and     *)
(* returns (None, None, None) at once: it never waits for the child,       *)
(* never reloads the state and never raises TerraformCommandError,         *)
(* whatever exit code the child produces later.                            *)
(***************************************************************************)
C9_FireAndForget ==
    \A c \in Threads :
        (InCmd(c) /\ ~call[c].synchronous) =>
            /\ hist[c].spawns <= 1
            /\ ~hist[c].waited /\ hist[c].reloads = 0
            /\ pc[c] \in {"encode", "spawn", "output", "done"}
            /\ hist[c].spawns = 1
                   => /\ CmdResult(c) = Returned(Absent, Absent, Absent)
                      /\ hist[c].child # 0
            /\ EndedByTuple(c) => hist[c].spawns = 1
            /\ ~EndedByCommandError(c)

\* a fire-and-forget call has returned while its child is still running
C9_Witness ==
    \E c \in Threads :
        /\ call[c].method = "cmd" /\ ~call[c].synchronous /\ call[c].raise_on_error
        /\ outcome[c] = Returned(Absent, Absent, Absent)
        /\ hist[c].child \in DOMAIN procs /\ procs[hist[c].child].state = "running"

(***************************************************************************)
(* C10.  The TerraformCommandError cmd raises carries the exit code,       *)
(* stdout and stderr of the tuple the same call returns with               *)
(* raise_on_error=False (no streams when they were not captured), and the  *)
(* tokens of the command joined with spaces.                               *)
(***************************************************************************)
C10_ErrorCarriesTheTuple ==
    \A c \in Threads :
        EndedByCommandError(c) =>
            LET e == CmdResult(c)
                t == Normalize(loc[c].ret_code, loc[c].out, loc[c].err,
                               call[c].capture_output, FALSE, loc[c].cmds)
            IN  /\ t.kind = "returned"
                /\ e.ret = t.ret /\ e.out = t.out /\ e.err = t.err
                /\ e.ret = Some(loc[c].ret_code) /\ loc[c].ret_code # 0
                /\ call[c].capture_output # "True" => e.out = Absent /\ e.err = Absent
                /\ e.cmd = Join(" ", loc[c].cmds)

\* an error raised with captured streams that differ, for a command of several tokens
C10_Witness ==
    \E c \in Threads :
        /\ EndedByCommandError(c) /\ call[c].capture_output = "True"
        /\ CmdResult(c).out # CmdResult(c).err /\ CmdResult(c).out # Some(<<>>)
        /\ Len(loc[c].cmds) > 2
(***************************************************************************)
(* C11.  output called with capture_output=False fails with ValueError     *)
(* before any child process is spawned and before any temp file is         *)
(* created, and leaves the loaded state as it is: the step that makes the  *)
(* call ends it with ValueError and changes neither the processes, the     *)
(* temp files, the tracking lists nor the loaded state, and the call does  *)
(* nothing after it.                                                       *)
(***************************************************************************)
C11_OutputFailsFast ==
    [][\A c \in Threads :
          (call'[c].method = "output" /\ call'[c].capture_output = "False")
              => /\ pc'[c] = "done"
                 /\ outcome'[c] = Raised("ValueError")
                 /\ hist'[c] = NoHistory /\ loc'[c] = NoLocals
                 /\ (ncalls' # ncalls
                        => UNCHANGED <<config, procs, disk, files, nextFile, tfstate,
                                       stateFile>>)]_vars

\* output has raised ValueError on an object that has a loaded state and a
\* tracked temp file it could have touched
C11_Witness ==
    \E c \in Threads :
        /\ call[c].method = "output" /\ call[c].capture_output = "False"
        /\ outcome[c].error = "ValueError"
        /\ tfstate[call[c].obj] > 0 /\ files[call[c].obj] # <<>>
(***************************************************************************)
(* The turns of the encoder's loop.                                        *)
(***************************************************************************)
\* the step is a turn of the loop of thread c's encoding pass
IsTurn(c) == pc[c] = "options" /\ loc'[c].turns = loc[c].turns + 1

\* the name and the value of the option the next turn of the loop takes
TurnName(c) == loc[c].kwargs[loc[c].turns + 1][1]
TurnValue(c) == loc[c].kwargs[loc[c].turns + 1][2]

\* the step appends the tokens toks to cmds, and nothing else
Emits(c, toks) == loc'[c].cmds = loc[c].cmds \o toks

\* the step creates no temp file
MakesNoFile == UNCHANGED <<files, disk, nextFile>>

C13_SubcommandSpliced ==
    \A c \in Threads :
        (/\ call[c].method = "generate_cmd_string" /\ pc[c] = "done"
         /\ outcome[c].kind = "returned"
         /\ EncoderShapes[call[c].line].cmd = c_workspace)
            => LET args == EncoderShapes[call[c].line].args
                   options == EncodeOptions(loc[c].kwargs, [cmds |-> <<>>, made |-> <<>>],
                                            nextFile - Cardinality(hist[c].created)).cmds
               IN  loc[c].cmds = <<terraform_bin_path, "workspace", args[1]>>
                                     \o options \o Tail(args)

\* workspace select staging has been encoded with options that give tokens
C13_Witness ==
    \E c \in Threads :
        /\ call[c].method = "generate_cmd_string" /\ pc[c] = "done"
        /\ outcome[c].kind = "returned"
        /\ EncoderShapes[call[c].line].args = <<"select", "staging">>
        /\ Len(loc[c].cmds) = 6
        /\ loc[c].cmds[3] = "select" /\ loc[c].cmds[6] = "staging"

C15_FlaggedBareAbsentNothing ==
    [][\A c \in Threads :
          IsTurn(c)
              => /\ TurnValue(c).t = "IsFlagged"
                     => /\ Emits(c, <<"-" \o StrOf(NormalizeOption(TurnName(c)))>>)
                        /\ MakesNoFile
                 /\ TurnValue(c).t \in {"None", "IsNotFlagged"}
                     => Emits(c, <<>>) /\ MakesNoFile]_vars

\* the loop has taken an option that is None and then one that is IsFlagged
C15_Witness ==
    \E c \in Threads :
        /\ pc[c] = "options" /\ loc[c].turns = 2
        /\ loc[c].kwargs[1][2].t = "None" /\ loc[c].kwargs[2][2].t = "IsFlagged"

(***************************************************************************)
(* C16.  A map-valued option whose name holds backend-config makes         *)
(* generate_cmd_string emit exactly one token -backend-config=key=value    *)
(* for each entry of the map, in the order of the map, no token for the    *)
(* map as a whole and no temp file; an empty map gives no token.           *)
(***************************************************************************)
C16_BackendConfigPerEntry ==
    [][\A c \in Threads :
          (/\ IsTurn(c) /\ TurnValue(c).t = "dict"
           /\ Contains(NormalizeOption(TurnName(c)),
                       <<"b", "a", "c", "k", "e", "n", "d", "-", "c", "o", "n", "f", "i", "g">>))
              => LET items == TurnValue(c).items
                 IN  /\ Emits(c, [i \in 1..Len(items) |->
                                     "-backend-config=" \o StrOf(items[i][1])
                                         \o "=" \o StrOf(items[i][2])])
                     /\ MakesNoFile]_vars

\* the loop has just taken a backend-config map of two entries
C16_Witness ==
    \E c \in Threads :
        /\ pc[c] = "options" /\ loc[c].turns >= 1
        /\ loc[c].kwargs[loc[c].turns] = OptionPool[11]
        /\ Len(loc[c].cmds) >= 4
(***************************************************************************)
(* C17.  For apply, plan, destroy and init the option mapping passed to    *)
(* cmd has, for every key the caller supplies, the caller's value, and for *)
(* every key of the instance default set (state, target, var, var_file,    *)
(* parallelism, no_color=IsFlagged, input=False) the caller does not       *)
(* supply, the instance default.                                           *)
(***************************************************************************)
\* the options the caller of a shim supplies, by name or in kwargs
Supplied(sc) == DictUpdate(sc.kwargs, sc.named)

\* the default set of an object
InstanceDefaults(self) ==
    << <<k_state, self.state>>, <<k_target, self.targets>>, <<k_var, self.variables>>,
       <<k_var_file, self.var_file>>, <<k_parallelism, self.parallelism>>,
       <<k_no_color, IsFlagged>>, <<k_input, PyBool(FALSE)>> >>

\* key has the value value in the dict d
Holds(d, key, value) == DictHas(d, key) /\ DictGet(d, key) = value

C17_CallerWinsOverDefaults ==
    \A c \in Threads :
        (call[c].method \in DefaultingShims /\ pc[c] # "idle")
            => LET passed == CallLine(c).kwargs
                   given == Supplied(ShimCalls[call[c].line])
                   defaults == InstanceDefaults(config[call[c].obj])
               IN  /\ \A i \in DOMAIN given : Holds(passed, given[i][1], given[i][2])
                   /\ \A i \in DOMAIN defaults :
                         ~DictHas(given, defaults[i][1])
                             => Holds(passed, defaults[i][1], defaults[i][2])
(***************************************************************************)
(* C18.  Cleanup is tolerant and idempotent: when a tracked temp file has  *)
(* already been removed from the disk, clean_up still completes, removes   *)
(* the tracked files that remain and empties the tracking list, and the    *)
(* call of cmd it is part of still ends with its primary outcome, the      *)
(* tuple or TerraformCommandError, not with a failure of the cleanup.      *)
(* os.unlink raises FileNotFoundError for a file that is gone.             *)
(***************************************************************************)
C18_CleanupTolerant ==
    \A c \in Threads :
        (InCmd(c) /\ hist[c].cleanups >= 1 /\ pc[c] \in {"normalize", "output", "done"})
            => /\ CmdResult(c).error # "FileNotFoundError"
               /\ files[call[c].obj] = <<>>
               /\ (Tracked(hist[c].trackedAtStart) \cup hist[c].created)
                      \cap DOMAIN disk = {}
(***************************************************************************)
(* C19.  generate_cmd_string spawns no process, does not reload the state, *)
(* leaves the loaded state and the configuration of the object as they     *)
(* are and deletes no file; besides the tokens it returns, its only effect *)
(* is one temp file created and added to the tracking list for each        *)
(* non-empty var map among the options.  Every step of an encoding pass    *)
(* keeps all of these, and only the turn of a non-empty var map creates a  *)
(* file, exactly one.                                                      *)
(***************************************************************************)
C19_EncoderOnlyCreatesVarFiles ==
    [][\A c \in Threads :
          (call'[c].method = "generate_cmd_string" /\ <<pc[c], loc[c]>> # <<pc'[c], loc'[c]>>)
              => /\ UNCHANGED <<config, tfstate, stateFile, procs>>
                 /\ \A f \in DOMAIN disk : f \in DOMAIN disk' /\ disk'[f] = disk[f]
                 /\ IF /\ IsTurn(c) /\ TurnName(c) = k_var
                       /\ TurnValue(c).t = "dict" /\ TurnValue(c).items # <<>>
                    THEN \E f \in DOMAIN disk' \ DOMAIN disk :
                            /\ DOMAIN disk' = DOMAIN disk \cup {f}
                            /\ files' = [files EXCEPT ![call[c].obj] = Append(@, f)]
                    ELSE UNCHANGED <<files, disk>>]_vars

\* a pass with a non-empty var map and another option has returned on an
\* object with earlier temp files: they are all there, with one more
C19_Witness ==
    \E c \in Threads :
        /\ call[c].method = "generate_cmd_string" /\ pc[c] = "done"
        /\ outcome[c].kind = "returned" /\ Len(loc[c].kwargs) = 2
        /\ Len(hist[c].trackedAtStart) = 2 /\ Cardinality(hist[c].created) = 1
        /\ Cardinality(DOMAIN disk) = 3 /\ Len(files[call[c].obj]) = 3

(***************************************************************************)
(* C20.  Every call of cmd, and every call of a shim that delegates to it  *)
(* (apply, plan, destroy, init, output, the workspace operations), spawns  *)
(* at most one child process and produces one outcome: no retry, whatever  *)
(* the exit code.  There are never more children than calls made.          *)
(***************************************************************************)
C20_OneChildOneOutcome ==
    /\ \A c \in Threads :
          /\ hist[c].spawns <= 1
          /\ hist[c].spawns = 0 => hist[c].child = 0 /\ ~hist[c].waited
          /\ pc[c] = "done" <=> outcome[c].kind \in {"returned", "raised"}
    /\ Cardinality(DOMAIN procs) <= ncalls

\* a shim has raised TerraformCommandError for a child that failed, having
\* started that one child
C20_Witness ==
    \E c \in Threads :
        /\ call[c].method \in DefaultingShims \cup WorkspaceShims
        /\ pc[c] = "done" /\ outcome[c].error = "TerraformCommandError"
        /\ outcome[c].ret = Some(1)
        /\ hist[c].spawns = 1 /\ hist[c].waited
Dashed(name) == [i \in DOMAIN name |-> IF name[i] = "_" THEN "-" ELSE name[i]]

\* the tokens an option of the dashed name n and the value value may give:
\* the bare flag, -n=element, -n=value, and the tokens that hold no name of
\* the caller's, -backend-config=key=value and -var-file=path
TokensOfName(n, value, paths) ==
    {"-" \o n}
    \cup (IF value.t = "list"
          THEN {"-" \o n \o "=" \o StrOf(value.items[i]) : i \in DOMAIN value.items}
          ELSE {})
    \cup (IF value.t \in {"bool", "str", "dict"} THEN {"-" \o n \o "=" \o Format(value)} ELSE {})
    \cup (IF value.t = "dict"
          THEN {"-backend-config=" \o StrOf(value.items[i][1]) \o "="
                    \o StrOf(value.items[i][2]) : i \in DOMAIN value.items}
               \cup {"-var-file=" \o TempName(f) : f \in paths}
          ELSE {})

C22_BooleansAndDashedNames ==
    [][\A c \in Threads :
          IsTurn(c)
              => LET d == Dashed(TurnName(c))
                     old == Len(loc[c].cmds)
                     new == Len(loc'[c].cmds)
                 IN  /\ ~HasChar(d, "_")
                     /\ new >= old /\ SubSeq(loc'[c].cmds, 1, old) = loc[c].cmds
                     /\ \A i \in (old + 1)..new :
                           loc'[c].cmds[i] \in
                               TokensOfName(StrOf(d), TurnValue(c),
                                            DOMAIN disk' \ DOMAIN disk)
                     /\ TurnValue(c).t = "bool"
                           => /\ Emits(c, <<"-" \o StrOf(d) \o "="
                                              \o (IF TurnValue(c).b THEN "true" ELSE "false")>>)
                              /\ MakesNoFile]_vars

\* the loop has taken a False and then a True whose name has two underscores
C22_Witness ==
    \E c \in Threads :
        /\ pc[c] = "options" /\ loc[c].turns = 2
        /\ loc[c].kwargs = <<OptionPool[13], OptionPool[16]>>
        /\ SubSeq(loc[c].cmds, Len(loc[c].cmds) - 1, Len(loc[c].cmds))
              = <<"-input=false", "-ignore-remote-version=true">>
====
